---- MODULE Spec2Model ----
(***************************************************************************)
(* Device info providers of the SR-IOV network device plugin:              *)
(*   - vhostNetInfoProvider (src/unnamed/part_000): advertises the fixed   *)
(*     pair /dev/vhost-net and /dev/net/tun after two existence checks;    *)
(*   - vdpaInfoProvider (src/pkg/netdevice/vdpa.go): wraps one vDPA        *)
(*     device, validates its type against the configured type and          *)
(*     advertises the vhost-vdpa character device.                         *)
(* The host (the two fixed paths, the driver bound to each vDPA device)    *)
(* changes under the providers; callers invoke the three query operations  *)
(* concurrently.                                                           *)
(***************************************************************************)
EXTENDS Integers, Sequences, FiniteSets, TLC

\* ---------------------------------------------------------------- bounds
NumCallers == 2

Callers == 1..NumCallers
\* The vDPA device a provider may wrap, named by the index of its VF.
Devices == {1}

\* ------------------------------------------------------------- constants
\* The nil types.VdpaDevice returned by GetVdpaDevice on a failed lookup.
NilDev == 0
\* PCI addresses a handle may be asked for; address 0 carries no vDPA device.
PciAddrs == {NilDev} \cup Devices

VdpaVirtioType == "virtio"
VdpaVhostType == "vhost"
VdpaInvalidType == "invalid"
\* types.VdpaType is a string: a selector may carry any value.
VdpaTypes == {VdpaVirtioType, VdpaVhostType, VdpaInvalidType, "vduse"}

VirtioVdpaDriver == "virtio_vdpa"
VhostVdpaDriver == "vhost_vdpa"
\* Drivers a vDPA device may be bound to; "vfio-pci" is none of the table's.
Drivers == {VirtioVdpaDriver, VhostVdpaDriver, "vfio-pci"}

\* A local that the call has not assigned.
Unset == "-"

\* ----------------------------------------------------- slices and values
\* A Go slice: nil and the empty non-nil slice are told apart.
NilSlice == [nil |-> TRUE, elems |-> <<>>]
MakeSlice == [nil |-> FALSE, elems |-> <<>>]
AppendSlice(s, t) == [nil |-> s.nil /\ t.elems = <<>>, elems |-> s.elems \o t.elems]

DeviceSpec(host, container, perm) ==
    [HostPath |-> host, ContainerPath |-> container, Permissions |-> perm]

\* fmt.Errorf: the format and its arguments; the nil error is <<>>.
NoError == <<>>
Errorf(fmt, args) == <<fmt>> \o args

\* ------------------------------------------------------------ type table
supportedVdpaTypesDup ==
    (VdpaVirtioType :> VhostVdpaDriver) @@ (VdpaVhostType :> VhostVdpaDriver)

supportedVdpaTypes ==
    (VdpaVirtioType :> VirtioVdpaDriver) @@ (VdpaVhostType :> VhostVdpaDriver)

\* The orders in which a range over the map may visit its keys.
IterationOrders ==
    LET K == DOMAIN supportedVdpaTypes
    IN {o \in [1..Cardinality(K) -> K] : \A k \in K : \E i \in DOMAIN o : o[i] = k}

RECURSIVE GetTypeFrom(_, _, _)
GetTypeFrom(order, i, currentDriver) ==
    IF i > Len(order) THEN VdpaInvalidType
    ELSE IF supportedVdpaTypes[order[i]] = currentDriver THEN order[i]
    ELSE GetTypeFrom(order, i + 1, currentDriver)

GetTypeSkipFirst(order, currentDriver) == GetTypeFrom(order, 2, currentDriver)

\* vdpaDevice.GetType: scan the table in the order the range yields.
GetType(order, currentDriver) == GetTypeFrom(order, 1, currentDriver)

\* The filesystem path the handle of device d reports.
GetPath(d) == "/dev/vhost-vdpa-0"

\* GetVdpaDevice: the handle of the vDPA device at pciAddr, nil if none.
GetVdpaDevice(pciAddr) == IF pciAddr \in Devices THEN pciAddr ELSE NilDev

NewVdpaInfoProvider(vdpaType, vdpaDev) == [dev |-> vdpaDev, vdpaType |-> vdpaType]

VhostNetProvider == "vhostNetInfoProvider"
VdpaProvider == "vdpaInfoProvider"

\* ----------------------------------------------------------------- state
VARIABLES
    vhostNetExists,   \* /dev/vhost-net exists on the host
    tunExists,        \* /dev/net/tun exists on the host
    driver,           \* driver[d]: the driver device d is bound to
    vip,              \* the vdpaInfoProvider: [dev, vdpaType]
    pc,               \* pc[c]: position of caller c in its current call
    call              \* call[c]: the call of caller c: receiver, locals, result

vars == <<vhostNetExists, tunExists, driver, vip, pc, call>>

NoCall ==
    [prov |-> Unset, op |-> Unset, prevNil |-> FALSE,
     sawVhost |-> Unset, sawTun |-> Unset, deviceSpec |-> NilSlice,
     healthy |-> FALSE, err |-> NoError, currentDriver |-> Unset, vType |-> Unset,
     specs |-> NilSlice, env |-> Unset, mounts |-> NilSlice]

\* A fresh call frame of caller c; prevNil remembers that the caller's
\* previous call was the same query on the same provider and returned nil.
Frame(c, prov, op) ==
    [NoCall EXCEPT !.prov = prov, !.op = op,
                   !.prevNil = /\ pc[c] = "done"
                               /\ op = "GetDeviceSpecs"
                               /\ call[c].prov = prov
                               /\ call[c].op = op
                               /\ call[c].specs.nil]

CanInvoke(c) == pc[c] \in {"idle", "done"}

Init ==
    /\ vhostNetExists \in BOOLEAN
    /\ tunExists \in BOOLEAN
    /\ driver \in [Devices -> Drivers]
    /\ vip \in {NewVdpaInfoProvider(t, GetVdpaDevice(a)) : t \in VdpaTypes, a \in PciAddrs}
    /\ pc = [c \in Callers |-> "idle"]
    /\ call = [c \in Callers |-> NoCall]

\* ------------------------------------------------------------------ host
CreateVhostNet ==
    /\ ~vhostNetExists
    /\ vhostNetExists' = TRUE
    /\ UNCHANGED <<tunExists, driver, vip, pc, call>>

RemoveVhostNet ==
    /\ vhostNetExists
    /\ vhostNetExists' = FALSE
    /\ UNCHANGED <<tunExists, driver, vip, pc, call>>

CreateTun ==
    /\ ~tunExists
    /\ tunExists' = TRUE
    /\ UNCHANGED <<vhostNetExists, driver, vip, pc, call>>

RemoveTun ==
    /\ tunExists
    /\ tunExists' = FALSE
    /\ UNCHANGED <<vhostNetExists, driver, vip, pc, call>>

Rebind(d, drv) ==
    /\ driver[d] # drv
    /\ driver' = [driver EXCEPT ![d] = drv]
    /\ UNCHANGED <<vhostNetExists, tunExists, vip, pc, call>>

\* ------------------------------------------------- vhostNetInfoProvider
VhostNetDeviceExist == vhostNetExists
tunDeviceExist == tunExists

getVhostNetDeviceSpec ==
    AppendSlice(MakeSlice,
        [nil |-> FALSE,
         elems |-> <<DeviceSpec("/dev/vhost-net", "/dev/vhost-net", "mrw")>>])

getTunDeviceSpec ==
    AppendSlice(MakeSlice,
        [nil |-> FALSE,
         elems |-> <<DeviceSpec("/dev/net/tun", "/dev/net/tun", "mrw")>>])

\* GetDeviceSpecs up to and including the first existence check.
VhostGetDeviceSpecsVhost(c) ==
    /\ CanInvoke(c)
    /\ LET f == Frame(c, VhostNetProvider, "GetDeviceSpecs")
       IN IF ~VhostNetDeviceExist
          THEN /\ call' = [call EXCEPT ![c] = [f EXCEPT !.sawVhost = "no",
                                                        !.specs = NilSlice]]
               /\ pc' = [pc EXCEPT ![c] = "done"]
          ELSE /\ call' = [call EXCEPT ![c] = [f EXCEPT !.sawVhost = "yes",
                                                        !.deviceSpec = getVhostNetDeviceSpec]]
               /\ pc' = [pc EXCEPT ![c] = "tun"]
    /\ UNCHANGED <<vhostNetExists, tunExists, driver, vip>>

\* Variant: a missing /dev/net/tun returns what was collected so far.
VhostGetDeviceSpecsTunPartial(c) ==
    /\ pc[c] = "tun"
    /\ IF ~tunDeviceExist
       THEN call' = [call EXCEPT ![c].sawTun = "no", ![c].specs = call[c].deviceSpec]
       ELSE call' = [call EXCEPT ![c].sawTun = "yes",
                                 ![c].deviceSpec = AppendSlice(@, getTunDeviceSpec),
                                 ![c].specs = AppendSlice(call[c].deviceSpec, getTunDeviceSpec)]
    /\ pc' = [pc EXCEPT ![c] = "done"]
    /\ UNCHANGED <<vhostNetExists, tunExists, driver, vip>>

\* Variant: the tun spec is put in front of the vhost-net spec.
VhostGetDeviceSpecsTunFirst(c) ==
    /\ pc[c] = "tun"
    /\ IF ~tunDeviceExist
       THEN call' = [call EXCEPT ![c].sawTun = "no", ![c].specs = NilSlice]
       ELSE call' = [call EXCEPT ![c].sawTun = "yes",
                                 ![c].deviceSpec = AppendSlice(getTunDeviceSpec, @),
                                 ![c].specs = AppendSlice(getTunDeviceSpec, call[c].deviceSpec)]
    /\ pc' = [pc EXCEPT ![c] = "done"]
    /\ UNCHANGED <<vhostNetExists, tunExists, driver, vip>>

\* Variant: a nil answer is remembered and given again on the next call.
VhostGetDeviceSpecsTunCached(c) ==
    /\ pc[c] = "tun"
    /\ IF ~tunDeviceExist
       THEN call' = [call EXCEPT ![c].sawTun = "no", ![c].specs = NilSlice]
       ELSE call' = [call EXCEPT ![c].sawTun = "yes",
                                 ![c].deviceSpec = AppendSlice(@, getTunDeviceSpec),
                                 ![c].specs = IF call[c].prevNil THEN NilSlice
                                              ELSE AppendSlice(call[c].deviceSpec,
                                                               getTunDeviceSpec)]
    /\ pc' = [pc EXCEPT ![c] = "done"]
    /\ UNCHANGED <<vhostNetExists, tunExists, driver, vip>>

\* GetDeviceSpecs from the second existence check to its return.
VhostGetDeviceSpecsTun(c) ==
    /\ pc[c] = "tun"
    /\ IF ~tunDeviceExist
       THEN call' = [call EXCEPT ![c].sawTun = "no", ![c].specs = NilSlice]
       ELSE call' = [call EXCEPT ![c].sawTun = "yes",
                                 ![c].deviceSpec = AppendSlice(@, getTunDeviceSpec),
                                 ![c].specs = AppendSlice(call[c].deviceSpec, getTunDeviceSpec)]
    /\ pc' = [pc EXCEPT ![c] = "done"]
    /\ UNCHANGED <<vhostNetExists, tunExists, driver, vip>>

VhostGetEnvVal(c) ==
    /\ CanInvoke(c)
    /\ call' = [call EXCEPT ![c] = [Frame(c, VhostNetProvider, "GetEnvVal") EXCEPT !.env = ""]]
    /\ pc' = [pc EXCEPT ![c] = "done"]
    /\ UNCHANGED <<vhostNetExists, tunExists, driver, vip>>

VhostGetMounts(c) ==
    /\ CanInvoke(c)
    /\ call' = [call EXCEPT ![c] =
                   [Frame(c, VhostNetProvider, "GetMounts") EXCEPT !.mounts = NilSlice]]
    /\ pc' = [pc EXCEPT ![c] = "done"]
    /\ UNCHANGED <<vhostNetExists, tunExists, driver, vip>>

\* ----------------------------------------------------- vdpaInfoProvider
\* Variant: the configured type is looked up before the handle is checked.
isHealthyTypeFirst(order) ==
    LET r == [healthy |-> FALSE, err |-> NoError, currentDriver |-> Unset, vType |-> Unset]
    IN IF vip.vdpaType \notin DOMAIN supportedVdpaTypes
       THEN [r EXCEPT !.err = Errorf("vdpaType not supported %s", <<vip.vdpaType>>)]
       ELSE IF vip.dev = NilDev
       THEN [r EXCEPT !.err = Errorf("no vDPA device found", <<>>)]
       ELSE LET currentDriver == driver[vip.dev]
                vType == GetType(order, currentDriver)
                s == [r EXCEPT !.currentDriver = currentDriver, !.vType = vType]
            IN IF vType = VdpaInvalidType
               THEN [s EXCEPT !.err = Errorf("device does not have a valid vdpa types", <<>>)]
               ELSE IF vType # vip.vdpaType
               THEN [s EXCEPT !.err = Errorf("wrong vdpa type. Config expects %s but device is %s",
                                             <<vip.vdpaType, vType>>)]
               ELSE [s EXCEPT !.healthy = TRUE]

\* isHealthy, with the locals it assigns; order is the map iteration order
\* GetType happens to get.
isHealthy(order) ==
    LET r == [healthy |-> FALSE, err |-> NoError, currentDriver |-> Unset, vType |-> Unset]
    IN IF vip.dev = NilDev
       THEN [r EXCEPT !.err = Errorf("no vDPA device found", <<>>)]
       ELSE IF vip.vdpaType \notin DOMAIN supportedVdpaTypes
       THEN [r EXCEPT !.err = Errorf("vdpaType not supported %s", <<vip.vdpaType>>)]
       ELSE LET currentDriver == driver[vip.dev]
                vType == GetType(order, currentDriver)
                s == [r EXCEPT !.currentDriver = currentDriver, !.vType = vType]
            IN IF vType = VdpaInvalidType
               THEN [s EXCEPT !.err = Errorf("device does not have a valid vdpa types", <<>>)]
               ELSE IF vType # vip.vdpaType
               THEN [s EXCEPT !.err = Errorf("wrong vdpa type. Config expects %s but device is %s",
                                             <<vip.vdpaType, vType>>)]
               ELSE [s EXCEPT !.healthy = TRUE]

\* Variant: the device node is added for the virtio type instead.
BuildDevSpecsVirtio ==
    IF vip.vdpaType = VdpaVirtioType
    THEN AppendSlice(MakeSlice,
             [nil |-> FALSE,
              elems |-> <<DeviceSpec(GetPath(vip.dev), GetPath(vip.dev), "mrw")>>])
    ELSE MakeSlice

\* The slice GetDeviceSpecs builds once the device is healthy.
BuildDevSpecs ==
    IF vip.vdpaType = VdpaVhostType
    THEN AppendSlice(MakeSlice,
             [nil |-> FALSE,
              elems |-> <<DeviceSpec(GetPath(vip.dev), GetPath(vip.dev), "mrw")>>])
    ELSE MakeSlice

\* Variant: an unhealthy device yields the empty slice instead of nil.
VdpaGetDeviceSpecsEmpty(c) ==
    /\ CanInvoke(c)
    /\ \E order \in IterationOrders :
         LET h == isHealthy(order)
             f == [Frame(c, VdpaProvider, "GetDeviceSpecs") EXCEPT
                      !.healthy = h.healthy, !.err = h.err,
                      !.currentDriver = h.currentDriver, !.vType = h.vType]
         IN call' = [call EXCEPT ![c] =
                        IF ~h.healthy THEN [f EXCEPT !.specs = MakeSlice]
                        ELSE [f EXCEPT !.specs = BuildDevSpecs]]
    /\ pc' = [pc EXCEPT ![c] = "done"]
    /\ UNCHANGED <<vhostNetExists, tunExists, driver, vip>>

\* Variant: the resolved type is written back into the provider.
VdpaGetDeviceSpecsWriteBack(c) ==
    /\ CanInvoke(c)
    /\ \E order \in IterationOrders :
         LET h == isHealthy(order)
             f == [Frame(c, VdpaProvider, "GetDeviceSpecs") EXCEPT
                      !.healthy = h.healthy, !.err = h.err,
                      !.currentDriver = h.currentDriver, !.vType = h.vType]
         IN /\ call' = [call EXCEPT ![c] =
                           IF ~h.healthy THEN [f EXCEPT !.specs = NilSlice]
                           ELSE [f EXCEPT !.specs = BuildDevSpecs]]
            /\ vip' = IF h.vType = Unset THEN vip ELSE [vip EXCEPT !.vdpaType = h.vType]
    /\ pc' = [pc EXCEPT ![c] = "done"]
    /\ UNCHANGED <<vhostNetExists, tunExists, driver>>

VdpaGetDeviceSpecs(c) ==
    /\ CanInvoke(c)
    /\ \E order \in IterationOrders :
         LET h == isHealthy(order)
             f == [Frame(c, VdpaProvider, "GetDeviceSpecs") EXCEPT
                      !.healthy = h.healthy, !.err = h.err,
                      !.currentDriver = h.currentDriver, !.vType = h.vType]
         IN call' = [call EXCEPT ![c] =
                        IF ~h.healthy THEN [f EXCEPT !.specs = NilSlice]
                        ELSE [f EXCEPT !.specs = BuildDevSpecs]]
    /\ pc' = [pc EXCEPT ![c] = "done"]
    /\ UNCHANGED <<vhostNetExists, tunExists, driver, vip>>

\* Variant: the device path is surfaced as the environment value.
VdpaGetEnvValPath(c) ==
    /\ CanInvoke(c)
    /\ call' = [call EXCEPT ![c] =
                   [Frame(c, VdpaProvider, "GetEnvVal") EXCEPT !.env = GetPath(vip.dev)]]
    /\ pc' = [pc EXCEPT ![c] = "done"]
    /\ UNCHANGED <<vhostNetExists, tunExists, driver, vip>>

VdpaGetEnvVal(c) ==
    /\ CanInvoke(c)
    /\ call' = [call EXCEPT ![c] = [Frame(c, VdpaProvider, "GetEnvVal") EXCEPT !.env = ""]]
    /\ pc' = [pc EXCEPT ![c] = "done"]
    /\ UNCHANGED <<vhostNetExists, tunExists, driver, vip>>

VdpaGetMounts(c) ==
    /\ CanInvoke(c)
    /\ call' = [call EXCEPT ![c] =
                   [Frame(c, VdpaProvider, "GetMounts") EXCEPT !.mounts = MakeSlice]]
    /\ pc' = [pc EXCEPT ![c] = "done"]
    /\ UNCHANGED <<vhostNetExists, tunExists, driver, vip>>

\* ---------------------------------------------------------- specification
Query ==
    \E c \in Callers :
        \/ VhostGetDeviceSpecsVhost(c)
        \/ VhostGetDeviceSpecsTun(c)
        \/ VhostGetEnvVal(c)
        \/ VhostGetMounts(c)
        \/ VdpaGetDeviceSpecs(c)
        \/ VdpaGetEnvVal(c)
        \/ VdpaGetMounts(c)

HostChange ==
    \/ CreateVhostNet
    \/ RemoveVhostNet
    \/ CreateTun
    \/ RemoveTun
    \/ \E d \in Devices, drv \in Drivers : Rebind(d, drv)

Next == Query \/ HostChange

\* Queries against a host that changes under them.
Spec == Init /\ [][Next]_vars

\* Queries against a host that stays as it is.
SpecStable == Init /\ [][Query]_vars

\* ------------------------------------------------------------ properties
Done(c, prov, op) == pc[c] = "done" /\ call[c].prov = prov /\ call[c].op = op

TableDrivers == {supportedVdpaTypes[t] : t \in DOMAIN supportedVdpaTypes}

\* The message of an error value, "" for the nil error.
ErrMsg(e) == IF e = NoError THEN "" ELSE e[1]

VhostNetSpec == DeviceSpec("/dev/vhost-net", "/dev/vhost-net", "mrw")
TunSpec == DeviceSpec("/dev/net/tun", "/dev/net/tun", "mrw")

\* The configured type's driver is the driver the call read from the device.
ValidatedFor(k) ==
    /\ vip.dev # NilDev
    /\ vip.vdpaType \in DOMAIN supportedVdpaTypes
    /\ k.currentDriver = supportedVdpaTypes[vip.vdpaType]

\* C1: whenever health validation fails, for whichever reason, the vDPA
\* GetDeviceSpecs returns nil; a non-nil result implies that the same call
\* found a bound handle, a configured type of the table, and the device's
\* driver to be the driver of the configured type.
C1_NilUnlessHealthy ==
    \A c \in Callers :
        Done(c, VdpaProvider, "GetDeviceSpecs") =>
            LET k == call[c]
            IN /\ ~k.healthy => k.specs = NilSlice
               /\ ( \/ vip.dev = NilDev
                    \/ vip.vdpaType \notin DOMAIN supportedVdpaTypes
                    \/ k.currentDriver \notin TableDrivers
                    \/ k.currentDriver # supportedVdpaTypes[vip.vdpaType] )
                  => k.specs = NilSlice
               /\ ~k.specs.nil => k.healthy /\ ValidatedFor(k)

C1_Witness ==
    \E c1, c2 \in Callers :
        /\ Done(c1, VdpaProvider, "GetDeviceSpecs")
        /\ Done(c2, VdpaProvider, "GetDeviceSpecs")
        /\ call[c1].specs.nil
        /\ ErrMsg(call[c1].err) = "wrong vdpa type. Config expects %s but device is %s"
        /\ ~call[c2].specs.nil

\* The type the table gives for a driver, the sentinel if it has none.
Resolved(d) ==
    IF d \in TableDrivers
    THEN CHOOSE t \in DOMAIN supportedVdpaTypes : supportedVdpaTypes[t] = d
    ELSE VdpaInvalidType

\* C2: health validation checks, in this order, (1) the handle is bound,
\* (2) the configured type is in the table, (3) the driver resolves to a
\* type other than the sentinel, (4) that type is the configured one; the
\* first failing check gives the reported condition, and the device is
\* healthy, with no error, exactly if all four pass. A provider configured
\* with the sentinel is never healthy.
C2_CheckOrder ==
    \A c \in Callers :
        Done(c, VdpaProvider, "GetDeviceSpecs") =>
            LET k == call[c]
                bound == vip.dev # NilDev
                known == vip.vdpaType \in DOMAIN supportedVdpaTypes
                actual == Resolved(k.currentDriver)
            IN /\ ~bound => ErrMsg(k.err) = "no vDPA device found"
               /\ bound /\ ~known => ErrMsg(k.err) = "vdpaType not supported %s"
               /\ bound /\ known /\ actual = VdpaInvalidType
                    => ErrMsg(k.err) = "device does not have a valid vdpa types"
               /\ bound /\ known /\ actual # VdpaInvalidType /\ actual # vip.vdpaType
                    => ErrMsg(k.err) = "wrong vdpa type. Config expects %s but device is %s"
               /\ k.healthy <=> (bound /\ known /\ actual # VdpaInvalidType
                                       /\ actual = vip.vdpaType)
               /\ k.healthy <=> (k.err = NoError)
               /\ vip.vdpaType = VdpaInvalidType => ~k.healthy

C2_Witness ==
    \E c \in Callers :
        /\ Done(c, VdpaProvider, "GetDeviceSpecs")
        /\ vip.dev # NilDev
        /\ vip.vdpaType = VdpaInvalidType
        /\ driver[vip.dev] \notin TableDrivers
        /\ ~call[c].healthy
        /\ ErrMsg(call[c].err) = "vdpaType not supported %s"

\* C3: for a healthy device, the vDPA GetDeviceSpecs returns exactly one
\* DeviceSpec (host path = container path = the device's path, "mrw") when
\* the configured type is vhost, and the empty non-nil slice when it is
\* virtio.
C3_HealthySpecs ==
    \A c \in Callers :
        Done(c, VdpaProvider, "GetDeviceSpecs") /\ ValidatedFor(call[c]) =>
            /\ vip.vdpaType = VdpaVhostType =>
                 /\ ~call[c].specs.nil
                 /\ call[c].specs.elems =
                      <<[HostPath |-> GetPath(vip.dev),
                         ContainerPath |-> GetPath(vip.dev),
                         Permissions |-> "mrw"]>>
            /\ vip.vdpaType = VdpaVirtioType =>
                 /\ ~call[c].specs.nil
                 /\ call[c].specs.elems = <<>>

C3_Witness ==
    \E c \in Callers :
        /\ Done(c, VdpaProvider, "GetDeviceSpecs")
        /\ ValidatedFor(call[c])
        /\ vip.vdpaType = VdpaVhostType
        /\ Len(call[c].specs.elems) = 1

\* C4: on a host where /dev/vhost-net and /dev/net/tun both exist, the
\* static GetDeviceSpecs returns exactly two DeviceSpecs, /dev/vhost-net
\* first and /dev/net/tun second, each with host path = container path and
\* "mrw".
C4_BothPresent ==
    \A c \in Callers :
        Done(c, VhostNetProvider, "GetDeviceSpecs") /\ vhostNetExists /\ tunExists =>
            /\ ~call[c].specs.nil
            /\ call[c].specs.elems = <<VhostNetSpec, TunSpec>>

C4_Witness ==
    \E c \in Callers :
        /\ Done(c, VhostNetProvider, "GetDeviceSpecs")
        /\ vhostNetExists /\ tunExists
        /\ Len(call[c].specs.elems) = 2

\* C5: the static GetDeviceSpecs returns nil or the full two-element slice,
\* never one element, also when the paths change between the two checks;
\* a missing first path returns nil without the second being checked, and
\* a missing second path returns nil.
C5_NoPartialResult ==
    \A c \in Callers :
        Done(c, VhostNetProvider, "GetDeviceSpecs") =>
            LET k == call[c]
            IN /\ k.specs = NilSlice \/ (~k.specs.nil /\ Len(k.specs.elems) = 2)
               /\ k.sawVhost = "no" => k.specs = NilSlice /\ k.sawTun = Unset
               /\ k.sawVhost = "yes" /\ k.sawTun = "no" => k.specs = NilSlice

C5_Witness ==
    \E c \in Callers :
        /\ Done(c, VhostNetProvider, "GetDeviceSpecs")
        /\ call[c].sawVhost = "yes"
        /\ call[c].sawTun = "no"
        /\ call[c].specs = NilSlice
        /\ ~vhostNetExists

\* C6: GetEnvVal returns the empty string and GetMounts a sequence of no
\* elements, for both providers and every host and health state.
C6_EmptyEnvAndMounts ==
    \A c \in Callers :
        /\ pc[c] = "done" /\ call[c].op = "GetEnvVal" => call[c].env = ""
        /\ pc[c] = "done" /\ call[c].op = "GetMounts" => Len(call[c].mounts.elems) = 0

C6_Witness ==
    \E c1, c2 \in Callers :
        /\ Done(c1, VdpaProvider, "GetEnvVal")
        /\ Done(c2, VhostNetProvider, "GetMounts")
        /\ vip.dev = NilDev
        /\ ~vhostNetExists
        /\ call[c1].env = ""
        /\ call[c2].mounts.elems = <<>>

\* C7: a device whose driver is the driver of a pair (type, driver) of the
\* table resolves to that type, in whichever order the table is scanned; a
\* device whose driver is in no pair resolves to the sentinel.
C7_RoundTrip ==
    /\ \A t \in DOMAIN supportedVdpaTypes, o \in IterationOrders :
           GetType(o, supportedVdpaTypes[t]) = t
    /\ \A c \in Callers :
           Done(c, VdpaProvider, "GetDeviceSpecs") /\ call[c].currentDriver # Unset =>
               /\ \A t \in DOMAIN supportedVdpaTypes :
                      supportedVdpaTypes[t] = call[c].currentDriver => call[c].vType = t
               /\ call[c].currentDriver \notin TableDrivers =>
                      call[c].vType = VdpaInvalidType

C7_Witness ==
    \E c1, c2 \in Callers :
        /\ Done(c1, VdpaProvider, "GetDeviceSpecs")
        /\ Done(c2, VdpaProvider, "GetDeviceSpecs")
        /\ call[c1].currentDriver = VirtioVdpaDriver
        /\ call[c1].vType = VdpaVirtioType
        /\ call[c2].currentDriver = "vfio-pci"
        /\ call[c2].vType = VdpaInvalidType

\* What a GetDeviceSpecs call read from the host.
Observed(k) == <<k.sawVhost, k.sawTun, k.currentDriver>>

\* C8: the result of GetDeviceSpecs is determined by what the call itself
\* read from the host and by the provider's configuration, whatever was
\* returned before: two calls on one provider that read the same return the
\* same, and a call that finds the resource present and valid returns
\* non-nil also when the caller's previous call returned nil.
C8_NoCaching ==
    /\ \A c1, c2 \in Callers :
           /\ pc[c1] = "done" /\ pc[c2] = "done"
           /\ call[c1].op = "GetDeviceSpecs" /\ call[c2].op = "GetDeviceSpecs"
           /\ call[c1].prov = call[c2].prov
           /\ Observed(call[c1]) = Observed(call[c2])
           => call[c1].specs = call[c2].specs
    /\ \A c \in Callers :
           /\ Done(c, VhostNetProvider, "GetDeviceSpecs")
                /\ call[c].sawVhost = "yes" /\ call[c].sawTun = "yes"
              => ~call[c].specs.nil
           /\ Done(c, VdpaProvider, "GetDeviceSpecs") /\ ValidatedFor(call[c])
              => ~call[c].specs.nil

C8_Witness ==
    \E c1, c2 \in Callers :
        /\ Done(c1, VhostNetProvider, "GetDeviceSpecs")
        /\ call[c1].prevNil
        /\ ~call[c1].specs.nil
        /\ Done(c2, VdpaProvider, "GetDeviceSpecs")
        /\ call[c2].prevNil
        /\ ~call[c2].specs.nil

\* The result a call returns when it runs alone on the host as it is.
AloneSpecs(prov) ==
    IF prov = VhostNetProvider
    THEN IF vhostNetExists /\ tunExists
         THEN [nil |-> FALSE, elems |-> <<VhostNetSpec, TunSpec>>]
         ELSE NilSlice
    ELSE IF /\ vip.dev # NilDev
            /\ vip.vdpaType \in DOMAIN supportedVdpaTypes
            /\ driver[vip.dev] = supportedVdpaTypes[vip.vdpaType]
         THEN IF vip.vdpaType = VdpaVhostType
              THEN [nil |-> FALSE,
                    elems |-> <<DeviceSpec(GetPath(vip.dev), GetPath(vip.dev), "mrw")>>]
              ELSE MakeSlice
         ELSE NilSlice

ResultsAsAlone ==
    \A c \in Callers :
        pc[c] = "done" =>
            /\ call[c].op = "GetDeviceSpecs" => call[c].specs = AloneSpecs(call[c].prov)
            /\ call[c].op = "GetEnvVal" => call[c].env = ""
            /\ call[c].op = "GetMounts" => call[c].mounts.elems = <<>>

\* C9: no query writes the provider's handle or configured type, and on a
\* host that does not change every call of every interleaving returns what
\* it returns when run alone.
C9_QueriesAreReadOnly == [][vip' = vip /\ ResultsAsAlone']_vars

C9_Witness ==
    \E c1, c2 \in Callers :
        /\ c1 # c2
        /\ pc[c1] = "tun"
        /\ Done(c2, VhostNetProvider, "GetDeviceSpecs")
        /\ call[c2].specs.elems = <<VhostNetSpec, TunSpec>>

\* The inverse index (driver -> type) built by one pass over the table in
\* the given order.
RECURSIVE BuildInverseFrom(_, _, _)
BuildInverseFrom(order, i, inv) ==
    IF i > Len(order) THEN inv
    ELSE BuildInverseFrom(order, i + 1,
             [d \in DOMAIN inv \cup {supportedVdpaTypes[order[i]]} |->
                 IF d = supportedVdpaTypes[order[i]] THEN order[i] ELSE inv[d]])

BuildInverse(order) == BuildInverseFrom(order, 1, << >>)

LookupInverse(inv, currentDriver) ==
    IF currentDriver \in DOMAIN inv THEN inv[currentDriver] ELSE VdpaInvalidType

\* C10: the type GetType found by scanning is the type every scan order
\* finds and the type a pre-built inverse index gives, the sentinel
\* included, for every driver a call read and every driver of the host.
C10_ScanEqualsIndex ==
    /\ \A d \in Devices, o1, o2 \in IterationOrders :
           GetType(o1, driver[d]) = LookupInverse(BuildInverse(o2), driver[d])
    /\ \A c \in Callers :
           Done(c, VdpaProvider, "GetDeviceSpecs") /\ call[c].currentDriver # Unset =>
               \A o \in IterationOrders :
                   /\ GetType(o, call[c].currentDriver) = call[c].vType
                   /\ LookupInverse(BuildInverse(o), call[c].currentDriver) = call[c].vType

C10_Witness ==
    \E c1, c2 \in Callers :
        /\ Done(c1, VdpaProvider, "GetDeviceSpecs")
        /\ Done(c2, VdpaProvider, "GetDeviceSpecs")
        /\ call[c1].currentDriver = VhostVdpaDriver
        /\ call[c1].vType = VdpaVhostType
        /\ call[c2].currentDriver \notin TableDrivers
        /\ call[c2].currentDriver # Unset
        /\ call[c2].vType = VdpaInvalidType

====
